---- MODULE Spec2Model ----
(***************************************************************************)
(* Model of app.py: a Streamlit page that extracts the text of two         *)
(* uploaded PDF documents and asks one or two OpenAI models to compare     *)
(* them.                                                                   *)
(*                                                                         *)
(* A text is kept run-length encoded: a sequence of runs [c, n] meaning    *)
(* the character c repeated n times, with n > 0 and no two adjacent runs   *)
(* of the same character, so that two texts are equal as Python strings    *)
(* exactly when their encodings are equal, and texts longer than the       *)
(* 60000 character budget can be handled.                                  *)
(*                                                                         *)
(* A result string is kept as the sequence of its pieces: the literal      *)
(* parts of an f-string and the values substituted into it.                *)
(***************************************************************************)
EXTENDS Integers, Sequences, FiniteSets, TLC

VARIABLES
    secrets,                     \* st.secrets.get("OPENAI_API_KEY"): None or a key
    uploaded_file1,              \* st.file_uploader(key="doc1"): None or a document
    uploaded_file2,              \* st.file_uploader(key="doc2"): None or a document
    selected_llm_display_names,  \* st.sidebar.multiselect: names in selection order
    pc,                          \* position of the script run: idle, loop, await
    i,                           \* the run's local: index (from 1) in the for loop
    openai_key_configured,       \* the run's local: the credential read at validation
    doc1_text,                   \* the run's local: text of document 1
    doc2_text,                   \* the run's local: text of document 2
    ui,                          \* st.warning/st.error/st.success of this run, in order
    result_cols,                 \* the display regions filled in this run, in order
    extracted,                   \* extract_text_from_pdf calls of this run: argument, result
    invocations,                 \* requester invocations of this run, in order
    returned,                    \* what each requester invocation returned, in order
    network                      \* requests sent to the provider in this run, in order

vars == <<secrets, uploaded_file1, uploaded_file2, selected_llm_display_names,
          pc, i, openai_key_configured, doc1_text, doc2_text, ui, result_cols,
          extracted, invocations, returned, network>>

(***************************************************************************)
(* Bounds and program constants                                            *)
(***************************************************************************)
MaxPages == 2

max_tokens_per_doc == 60000

\* Python's None is the empty sequence and a value v that may be None is <<v>>,
\* so that "not x" on an optional non-empty value is x = None.
None == <<>>

Some(v) == <<v>>

Keys == {"sk-A", "sk-B"}

SecretValues == {None} \cup {Some(k) : k \in Keys}

(***************************************************************************)
(* Texts (Python str), run-length encoded                                  *)
(***************************************************************************)
EmptyText == <<>>

Run(c, n) == [c |-> c, n |-> n]

RECURSIVE TextLen(_)
TextLen(t) == IF t = <<>> THEN 0 ELSE Head(t).n + TextLen(Tail(t))

\* a + b on str
Concat(a, b) ==
    IF a = <<>> THEN b
    ELSE IF b = <<>> THEN a
    ELSE IF a[Len(a)].c = b[1].c
         THEN SubSeq(a, 1, Len(a) - 1)
              \o <<Run(b[1].c, a[Len(a)].n + b[1].n)>>
              \o Tail(b)
         ELSE a \o b

\* t[:k] on str, k >= 0
RECURSIVE Slice(_, _)
Slice(t, k) ==
    IF t = <<>> \/ k <= 0 THEN <<>>
    ELSE IF Head(t).n >= k THEN <<Run(Head(t).c, k)>>
    ELSE <<Head(t)>> \o Slice(Tail(t), k - Head(t).n)

(***************************************************************************)
(* Documents: what fitz.open and page.get_text do on an uploaded stream    *)
(***************************************************************************)
\* page.get_text() of a page that bears text: a short text, and one that fills
\* the budget alone.
PageTexts == { <<Run("a", 1)>>, <<Run("b", max_tokens_per_doc)>> }

\* A page of a scanned image: page.get_text() returns "".
BlankPage == [raises |-> FALSE, text |-> EmptyText, exc |-> "-"]

\* A page is read to its text, or page.get_text() raises on it.
Pages == [raises : {FALSE}, text : PageTexts, exc : {"-"}]
         \cup { [raises |-> TRUE, text |-> EmptyText, exc |-> "bad page"] }

PageSeqs == UNION { [1..n -> Pages] : n \in 1..MaxPages }

\* The streams uploaded: documents of 1..MaxPages pages, scanned-image-only
\* documents (every page blank), and a stream fitz.open cannot parse.
Documents == { [opens |-> TRUE, pages |-> p, exc |-> "-"] : p \in PageSeqs }
             \cup { [opens |-> TRUE, pages |-> [k \in 1..n |-> BlankPage], exc |-> "-"] :
                      n \in 1..MaxPages }
             \cup { [opens |-> FALSE, pages |-> <<>>, exc |-> "cannot open"] }

UploadValues == {None} \cup {Some(d) : d \in Documents}

\* The for loop of lines 29-30 from the pages still to read and the text so far:
\* the text when every page was read, or the exception of the first page that
\* raises, with the text accumulated until then.
RECURSIVE PageLoop(_, _)
PageLoop(pages, text) ==
    IF pages = <<>> THEN [raised |-> FALSE, text |-> text, exc |-> "-"]
    ELSE IF Head(pages).raises
         THEN [raised |-> TRUE, text |-> text, exc |-> Head(pages).exc]
         ELSE PageLoop(Tail(pages), Concat(text, Head(pages).text))

\* The try body of lines 28-31: pdf_file.read() on None and fitz.open on a
\* stream it cannot parse raise before any page is read.
TryExtract(pdf_file) ==
    IF pdf_file = None
    THEN [raised |-> TRUE, text |-> EmptyText, exc |-> "NoneType has no read"]
    ELSE IF ~pdf_file[1].opens
         THEN [raised |-> TRUE, text |-> EmptyText, exc |-> pdf_file[1].exc]
         ELSE PageLoop(pdf_file[1].pages, EmptyText)

\* The except clause without the reset of text.
TextKeptAfterExcept(text) == text

\* Line 35: the value of text after the except clause, from its value before.
TextAfterExcept(text) == EmptyText

\* extract_text_from_pdf: the text returned and the st.error calls made.
extract_text_from_pdf(pdf_file) ==
    LET r == TryExtract(pdf_file) IN
    IF r.raised
    THEN [text  |-> TextAfterExcept(r.text),
          error |-> << [fn |-> "error",
                        body |-> <<"Error extracting text with PyMuPDF: ", r.exc>>] >>]
    ELSE [text |-> r.text, error |-> <<>>]

(***************************************************************************)
(* The comparison requesters                                               *)
(***************************************************************************)
\* COMPARISON_PROMPT_TEMPLATE.format(doc1_text=..., doc2_text=...): the fixed
\* template with the two texts substituted verbatim.
FormatPrompt(d1, d2) ==
    [template |-> "COMPARISON_PROMPT_TEMPLATE", doc1_text |-> d1, doc2_text |-> d2]

\* doc_text[:max_tokens_per_doc] of get_gpt41_comparison
Truncate41(doc_text) == Slice(doc_text, max_tokens_per_doc)

\* get_o3_comparison substituting the text without the slice.
NoTruncateO3(doc_text) == doc_text

\* doc_text[:max_tokens_per_doc] of get_o3_comparison
TruncateO3(doc_text) == Slice(doc_text, max_tokens_per_doc)

\* The read of get_gpt41_comparison, were it to reuse the value the run read at
\* validation.
Gpt41KeyFromValidation == openai_key_configured

\* Line 64: the credential get_gpt41_comparison acts on, st.secrets.get at the
\* moment of the call.
Gpt41Key == secrets

\* The same read in get_o3_comparison, were it to reuse the value the run read
\* at validation.
O3KeyFromValidation == openai_key_configured

\* Line 101: the same read in get_o3_comparison.
O3Key == secrets

RequesterKey(fn) == IF fn = "get_gpt41_comparison" THEN Gpt41Key ELSE O3Key

MissingKeyError ==
    <<"ERROR:", " OpenAI API key not found in Streamlit Secrets. Please configure it (OPENAI_API_KEY).">>

\* client.responses.create(model=model_name, input=input_text_for_llm)
Gpt41Request(key, d1, d2, model_name) ==
    [api_key   |-> key,
     model     |-> model_name,
     reasoning |-> None,
     input     |-> [shape |-> "string", role |-> None,
                    content |-> FormatPrompt(Truncate41(d1), Truncate41(d2))]]

\* client.responses.create(model=model_name, reasoning={"effort": "medium"},
\*                         input=[{"role": "user", "content": prompt_content}])
O3Request(key, d1, d2, model_name) ==
    [api_key   |-> key,
     model     |-> model_name,
     reasoning |-> Some("medium"),
     input     |-> [shape |-> "messages", role |-> Some("user"),
                    content |-> FormatPrompt(TruncateO3(d1), TruncateO3(d2))]]

BuildRequest(fn, key, d1, d2, model_name) ==
    IF fn = "get_gpt41_comparison"
    THEN Gpt41Request(key, d1, d2, model_name)
    ELSE O3Request(key, d1, d2, model_name)

\* ExceptionResult without the exception's description in the string.
ExceptionResultWithoutDescription(fn, model_name, e) ==
    IF fn = "get_gpt41_comparison"
    THEN <<"ERROR:", " An error occurred with GPT-4.1 (", model_name, ") comparison">>
    ELSE <<"ERROR:", " An error occurred with O3 (", model_name, ") comparison">>

\* The f-strings of the two except clauses.
ExceptionResult(fn, model_name, e) ==
    IF fn = "get_gpt41_comparison"
    THEN <<"ERROR:", " An error occurred with GPT-4.1 (", model_name, ") comparison: ", e>>
    ELSE <<"ERROR:", " An error occurred with O3 (", model_name, ") comparison: ", e>>

\* An except clause that lets the exception through.
NotCaught(e) == FALSE

\* "except Exception as e" around client.responses.create and response.output_text
Caught(e) == TRUE

\* What the provider can answer: output_text of a response, or an exception
\* raised by the call or by reading a malformed response.
OutputTexts == { <<"RESULT_A">>, <<"RESULT_B">> }

Exceptions == { "Connection error.", "response has no output_text" }

(***************************************************************************)
(* The page                                                                *)
(***************************************************************************)
openai_models_for_selection == [n \in {"gpt-4.1", "o3"} |-> n]

DisplayNames == DOMAIN openai_models_for_selection

\* What st.sidebar.multiselect can return: distinct names in selection order.
Selections ==
    { s \in UNION { [1..n -> DisplayNames] : n \in 0..Cardinality(DisplayNames) } :
        \A a, b \in DOMAIN s : a # b => s[a] # s[b] }

DefaultSelection == <<"gpt-4.1", "o3">>

\* Dispatch with every recognised name sent to the first requester.
DispatchAllToGpt41(display_name) ==
    IF display_name \in {"gpt-4.1", "o3"} THEN "get_gpt41_comparison"
    ELSE "unrecognized"

\* Lines 220-225: the requester a display name is dispatched to.
Dispatch(display_name) ==
    IF display_name = "gpt-4.1" THEN "get_gpt41_comparison"
    ELSE IF display_name = "o3" THEN "get_o3_comparison"
    ELSE "unrecognized"

\* Line 233: f"copy_{model_id.replace('.', '_').replace('-', '_')}"
CopyKey(model_id) ==
    IF model_id = "gpt-4.1" THEN "copy_gpt_4_1" ELSE "copy_o3"

Msg(fn, text) == [fn |-> fn, body |-> <<text>>]

WarnDocuments == Msg("warning", "Please upload both PDF documents to compare.")

WarnModels == Msg("warning", "Please select at least one LLM to run for comparison.")

ErrorKey == Msg("error", "OpenAI API key (OPENAI_API_KEY) not found in Streamlit Secrets. Please configure it to proceed.")

ErrorExtract == Msg("error", "Could not extract text from one or both PDFs. Please ensure they are not scanned images or malformed.")

SuccessExtracted == Msg("success", "Text extracted successfully! Initiating LLM comparison(s)...")

SuccessComplete == Msg("success", "All selected comparisons complete! Please review the outputs above.")

Traceback == Msg("exception", "uncaught exception")

\* Validate with the check of document 2 left out.
ValidateFirstDocumentOnly(file1, file2, names, key) ==
    IF file1 = None THEN <<WarnDocuments>>
    ELSE IF names = <<>> THEN <<WarnModels>>
    ELSE IF key = None THEN <<ErrorKey>>
    ELSE <<>>

\* Validate with the model selection checked before the documents.
ValidateModelsFirst(file1, file2, names, key) ==
    IF names = <<>> THEN <<WarnModels>>
    ELSE IF file1 = None \/ file2 = None THEN <<WarnDocuments>>
    ELSE IF key = None THEN <<ErrorKey>>
    ELSE <<>>

\* Lines 186-194: the messages of the validation step, empty when it passes.
Validate(file1, file2, names, key) ==
    IF file1 = None \/ file2 = None THEN <<WarnDocuments>>
    ELSE IF names = <<>> THEN <<WarnModels>>
    ELSE IF key = None THEN <<ErrorKey>>
    ELSE <<>>

\* The extraction check with "and" in place of "or".
ExtractionFailedBoth(t1, t2) == t1 = EmptyText /\ t2 = EmptyText

\* Line 202: "not doc1_text or not doc2_text"
ExtractionFailed(t1, t2) == t1 = EmptyText \/ t2 = EmptyText

Init ==
    /\ secrets \in SecretValues
    /\ uploaded_file1 = None
    /\ uploaded_file2 = None
    /\ selected_llm_display_names = DefaultSelection
    /\ pc = "idle"
    /\ i = 0
    /\ openai_key_configured = None
    /\ doc1_text = EmptyText
    /\ doc2_text = EmptyText
    /\ ui = <<>>
    /\ result_cols = <<>>
    /\ extracted = <<>>
    /\ invocations = <<>>
    /\ returned = <<>>
    /\ network = <<>>

\* The script run is over: the page waits for the user and the run's locals
\* are gone.
EndRun ==
    /\ pc' = "idle"
    /\ i' = 0
    /\ openai_key_configured' = None
    /\ doc1_text' = EmptyText
    /\ doc2_text' = EmptyText

\* A script run without the button: nothing below "if compare_button" is drawn.
NoRun ==
    /\ EndRun
    /\ ui' = <<>>
    /\ result_cols' = <<>>
    /\ extracted' = <<>>
    /\ invocations' = <<>>
    /\ returned' = <<>>
    /\ network' = <<>>

\* The user puts a document into the empty uploader of document 1, or removes
\* the one it holds (a replacement is a removal followed by an upload).
Upload1 ==
    /\ pc = "idle"
    /\ IF uploaded_file1 = None
       THEN \E d \in Documents : uploaded_file1' = Some(d)
       ELSE uploaded_file1' = None
    /\ NoRun
    /\ UNCHANGED <<secrets, uploaded_file2, selected_llm_display_names>>

\* The same for the uploader of document 2.
Upload2 ==
    /\ pc = "idle"
    /\ IF uploaded_file2 = None
       THEN \E d \in Documents : uploaded_file2' = Some(d)
       ELSE uploaded_file2' = None
    /\ NoRun
    /\ UNCHANGED <<secrets, uploaded_file1, selected_llm_display_names>>

\* The user changes the model selection.
Select ==
    /\ pc = "idle"
    /\ \E s \in Selections \ {selected_llm_display_names} :
          selected_llm_display_names' = s
    /\ NoRun
    /\ UNCHANGED <<secrets, uploaded_file1, uploaded_file2>>

\* The configured credential is set, replaced or removed, at any moment.
SetSecret ==
    /\ \E k \in SecretValues \ {secrets} : secrets' = k
    /\ UNCHANGED <<uploaded_file1, uploaded_file2, selected_llm_display_names,
                   pc, i, openai_key_configured, doc1_text, doc2_text, ui,
                   result_cols, extracted, invocations, returned, network>>

\* "Run Comparison(s)" is clicked: lines 184-210, validation and extraction.
Click ==
    /\ pc = "idle"
    /\ LET key  == secrets
           msgs == Validate(uploaded_file1, uploaded_file2,
                            selected_llm_display_names, key)
           x1   == extract_text_from_pdf(uploaded_file1)
           x2   == extract_text_from_pdf(uploaded_file2)
       IN
       IF msgs # <<>>
       THEN /\ ui' = msgs
            /\ extracted' = <<>>
            /\ EndRun
       ELSE /\ extracted' = << [pdf_file |-> uploaded_file1, text |-> x1.text],
                               [pdf_file |-> uploaded_file2, text |-> x2.text] >>
            /\ IF ExtractionFailed(x1.text, x2.text)
               THEN /\ ui' = x1.error \o x2.error \o <<ErrorExtract>>
                    /\ EndRun
               ELSE /\ ui' = x1.error \o x2.error \o <<SuccessExtracted>>
                    /\ openai_key_configured' = key
                    /\ doc1_text' = x1.text
                    /\ doc2_text' = x2.text
                    /\ pc' = "loop"
                    /\ i' = 1
    /\ result_cols' = <<>>
    /\ invocations' = <<>>
    /\ returned' = <<>>
    /\ network' = <<>>
    /\ UNCHANGED <<secrets, uploaded_file1, uploaded_file2, selected_llm_display_names>>

\* Lines 227-236 once the requester of model i has returned result: the result is
\* drawn in region i with its copy control, then the loop goes on to the next
\* selected model or, after the last one, line 236 reports completion.
Render(result) ==
    LET display_name == selected_llm_display_names[i]
        model_id     == openai_models_for_selection[display_name]
    IN
    /\ result_cols' = Append(result_cols,
                             [col       |-> i,
                              subheader |-> <<"Comparison by ", display_name>>,
                              markdown  |-> result,
                              copy      |-> [text |-> result, key |-> CopyKey(model_id)]])
    /\ IF i = Len(selected_llm_display_names)
       THEN /\ ui' = Append(ui, SuccessComplete)
            /\ EndRun
       ELSE /\ ui' = ui
            /\ pc' = "loop"
            /\ i' = i + 1
            /\ UNCHANGED <<openai_key_configured, doc1_text, doc2_text>>

\* Lines 213-223 and the requester up to its outbound call: the requester reads
\* the credential; without one it returns the error string at once, with one it
\* sends its request and waits for the answer.
Invoke ==
    /\ pc = "loop"
    /\ LET display_name == selected_llm_display_names[i]
           model_id     == openai_models_for_selection[display_name]
           fn           == Dispatch(display_name)
           key          == RequesterKey(fn)
       IN
       IF fn = "unrecognized"
       THEN /\ Render(<<"ERROR:", " Unrecognized LLM selected: ", display_name>>)
            /\ UNCHANGED <<invocations, returned, network>>
       ELSE /\ invocations' = Append(invocations,
                                     [fn |-> fn, doc1_text |-> doc1_text,
                                      doc2_text |-> doc2_text, model_name |-> model_id])
            /\ IF key = None
               THEN /\ returned' = Append(returned, MissingKeyError)
                    /\ Render(MissingKeyError)
                    /\ UNCHANGED network
               ELSE /\ network' = Append(network,
                                         BuildRequest(fn, key[1], doc1_text, doc2_text, model_id))
                    /\ pc' = "await"
                    /\ UNCHANGED <<i, ui, result_cols, returned,
                                   openai_key_configured, doc1_text, doc2_text>>
    /\ UNCHANGED <<secrets, uploaded_file1, uploaded_file2, selected_llm_display_names,
                   extracted>>

\* The outbound call answers: the requester returns response.output_text.
Return ==
    /\ pc = "await"
    /\ \E out \in OutputTexts :
          /\ returned' = Append(returned, out)
          /\ Render(out)
    /\ UNCHANGED <<secrets, uploaded_file1, uploaded_file2, selected_llm_display_names,
                   extracted, invocations, network>>

\* The outbound call, or reading its response, raises: the except clause turns
\* the exception into the error string the requester returns.
RaiseWith(e) ==
    /\ pc = "await"
    /\ LET call   == invocations[Len(invocations)]
           result == ExceptionResult(call.fn, call.model_name, e)
       IN
       IF Caught(e)
       THEN /\ returned' = Append(returned, result)
            /\ Render(result)
       ELSE /\ ui' = Append(ui, Traceback)
            /\ EndRun
            /\ UNCHANGED <<result_cols, returned>>
    /\ UNCHANGED <<secrets, uploaded_file1, uploaded_file2, selected_llm_display_names,
                   extracted, invocations, network>>

Raise == \E e \in Exceptions : RaiseWith(e)

Next ==
    \/ Upload1
    \/ Upload2
    \/ Select
    \/ SetSecret
    \/ Click
    \/ Invoke
    \/ Return
    \/ Raise

Spec == Init /\ [][Next]_vars

\* The script runs on once started, and every outbound call returns or raises.
FairSpec == Spec /\ WF_vars(Invoke) /\ WF_vars(Return \/ Raise)

(***************************************************************************)
(* Properties                                                              *)
(***************************************************************************)
Range(f) == { f[k] : k \in DOMAIN f }

Last(q) == q[Len(q)]

IsErrorString(r) == Len(r) > 0 /\ r[1] = "ERROR:"

DocumentMissing == uploaded_file1 = None \/ uploaded_file2 = None

NoModelSelected == selected_llm_display_names = <<>>

NoCredential == secrets = None

PreconditionMissing == DocumentMissing \/ NoModelSelected \/ NoCredential

\* C1: a run triggered with a precondition missing (a document not uploaded, no
\* model selected or no credential configured) ends at once with warning or
\* error messages only, extracts no text and makes no network call.
C1_MissingPreconditionDoesNoWork ==
    [][ (Click /\ PreconditionMissing) =>
          /\ pc' = "idle"
          /\ ui' # <<>>
          /\ \A m \in Range(ui') : m.fn \in {"warning", "error"}
          /\ extracted' = <<>>
          /\ invocations' = <<>>
          /\ network' = <<>> ]_vars

\* A run with document 2 omitted has shown the warning and done nothing else.
C1_Witness ==
    /\ uploaded_file1 # None
    /\ uploaded_file2 = None
    /\ secrets # None
    /\ pc = "idle"
    /\ ui = <<WarnDocuments>>
    /\ extracted = <<>>
    /\ network = <<>>

\* C2: either requester, invoked while no credential is configured, returns a
\* string starting with "ERROR:" and sends nothing to the provider.
C2_NoCredentialNoCall ==
    [][ \A fn \in {"get_gpt41_comparison", "get_o3_comparison"} :
          (Invoke /\ NoCredential /\ Dispatch(selected_llm_display_names[i]) = fn) =>
             /\ Len(invocations') = Len(invocations) + 1
             /\ Last(invocations').fn = fn
             /\ Len(returned') = Len(returned) + 1
             /\ IsErrorString(Last(returned'))
             /\ network' = network ]_vars

\* Both requesters were invoked without a credential in a run that had passed
\* validation: two error strings, nothing sent.
C2_Witness ==
    /\ Len(invocations) = 2
    /\ Len(returned) = 2
    /\ IsErrorString(returned[1])
    /\ IsErrorString(returned[2])
    /\ network = <<>>

\* C3: when the outbound call of either requester raises, the requester returns
\* one string that starts with "ERROR:" and contains the exception's
\* description, and the exception does not escape: the result is drawn in the
\* model's region and the run goes on.
C3_RaisedCallBecomesErrorString ==
    [][ \A e \in Exceptions :
          \A fn \in {"get_gpt41_comparison", "get_o3_comparison"} :
             (RaiseWith(e) /\ Last(invocations).fn = fn) =>
                /\ Len(returned') = Len(returned) + 1
                /\ IsErrorString(Last(returned'))
                /\ e \in Range(Last(returned'))
                /\ Traceback \notin Range(ui')
                /\ Len(result_cols') = Len(result_cols) + 1
                /\ Last(result_cols').markdown = Last(returned')
                /\ invocations' = invocations ]_vars

\* Both requesters saw their call raise in one run; both returned error
\* strings carrying the description and the run completed.
C3_Witness ==
    /\ Len(network) = 2
    /\ Len(returned) = 2
    /\ IsErrorString(returned[1])
    /\ "Connection error." \in Range(returned[1])
    /\ IsErrorString(returned[2])
    /\ "response has no output_text" \in Range(returned[2])
    /\ Last(ui) = SuccessComplete

\* The requester and the request shape that belong to a display name.
VariantOf(display_name) ==
    CASE display_name = "gpt-4.1" -> [fn |-> "get_gpt41_comparison", shape |-> "string",
                                      role |-> None, reasoning |-> None]
      [] display_name = "o3"      -> [fn |-> "get_o3_comparison", shape |-> "messages",
                                      role |-> Some("user"), reasoning |-> Some("medium")]

RunComplete == ui # <<>> /\ Last(ui) = SuccessComplete

\* C4: in a run past validation and extraction the requester invocations are the
\* selection, in order, one per selected model, each through the model's own
\* variant and request shape; region k shows what invocation k returned; and
\* whatever the results, the run ends only after every selected model was
\* invoked.
C4_OneInvocationPerSelectedModelInOrder ==
    /\ Len(invocations) <= Len(selected_llm_display_names)
    /\ \A k \in DOMAIN invocations :
          /\ invocations[k].fn = VariantOf(selected_llm_display_names[k]).fn
          /\ invocations[k].model_name = selected_llm_display_names[k]
    /\ \A r \in Range(network) :
          /\ r.input.shape = VariantOf(r.model).shape
          /\ r.input.role = VariantOf(r.model).role
          /\ r.reasoning = VariantOf(r.model).reasoning
    /\ Len(result_cols) = Len(returned)
    /\ \A k \in DOMAIN result_cols :
          /\ result_cols[k].col = k
          /\ result_cols[k].subheader[2] = selected_llm_display_names[k]
          /\ result_cols[k].markdown = returned[k]
    /\ (pc = "idle" /\ Len(extracted) = 2
           /\ extracted[1].text # EmptyText /\ extracted[2].text # EmptyText)
          => /\ RunComplete
             /\ Len(invocations) = Len(selected_llm_display_names)
             /\ Len(result_cols) = Len(selected_llm_display_names)

\* A completed run of o3 then gpt-4.1 in which o3's call failed and gpt-4.1
\* still answered.
C4_Witness ==
    /\ selected_llm_display_names = <<"o3", "gpt-4.1">>
    /\ RunComplete
    /\ Len(network) = 2
    /\ IsErrorString(result_cols[1].markdown)
    /\ result_cols[2].markdown = <<"RESULT_B">>

\* C5: a run that passes validation extracts the text of both documents, and
\* when either text is empty it ends with the extraction error and invokes no
\* requester and sends nothing.
C5_EmptyExtractionHaltsRun ==
    /\ [][ (Click /\ ~PreconditionMissing) =>
             /\ Len(extracted') = 2
             /\ extracted'[1].pdf_file = uploaded_file1
             /\ extracted'[2].pdf_file = uploaded_file2 ]_vars
    /\ [](\A k \in DOMAIN extracted :
             extracted[k].text = EmptyText =>
                /\ Len(extracted) = 2
                /\ pc = "idle"
                /\ Last(ui) = ErrorExtract
                /\ invocations = <<>>
                /\ network = <<>>
                /\ result_cols = <<>>)

\* Document 1 gave text, document 2 (pages without text, no failure) gave
\* none: the run halted.
C5_Witness ==
    /\ Len(extracted) = 2
    /\ extracted[1].text # EmptyText
    /\ extracted[2].text = EmptyText
    /\ ui = <<ErrorExtract>>
    /\ pc = "idle"

\* p is a prefix of t, for run-length encoded texts.
RECURSIVE IsPrefix(_, _)
IsPrefix(p, t) ==
    \/ p = <<>>
    \/ /\ t # <<>>
       /\ Head(p).c = Head(t).c
       /\ \/ Head(p).n = Head(t).n /\ IsPrefix(Tail(p), Tail(t))
          \/ Head(p).n < Head(t).n /\ Tail(p) = <<>>

Min(a, b) == IF a <= b THEN a ELSE b

\* sent is what a request carries of the document text full.
IsBudgetPrefix(sent, full) ==
    /\ IsPrefix(sent, full)
    /\ TextLen(sent) = Min(TextLen(full), 60000)
    /\ TextLen(full) <= 60000 => sent = full

\* C6: every request of either requester carries, for each of the two documents,
\* exactly the prefix of the document's text of length min(len, 60000) inside
\* the fixed template: a text within the budget unchanged, a longer one cut to
\* its first 60000 characters.
C6_RequestCarriesBudgetPrefix ==
    \A r \in Range(network) :
       /\ r.input.content.template = "COMPARISON_PROMPT_TEMPLATE"
       /\ IsBudgetPrefix(r.input.content.doc1_text, extracted[1].text)
       /\ IsBudgetPrefix(r.input.content.doc2_text, extracted[2].text)

\* Both requesters sent a request for a document 1 of 60001 characters, cut to
\* 60000, and a one-character document 2, unchanged.
C6_Witness ==
    /\ Len(network) = 2
    /\ TextLen(extracted[1].text) = 60001
    /\ TextLen(extracted[2].text) = 1
    /\ \A r \in Range(network) :
          /\ TextLen(r.input.content.doc1_text) = 60000
          /\ r.input.content.doc2_text = extracted[2].text
    /\ {r.input.shape : r \in Range(network)} = {"string", "messages"}

\* The pages' texts joined in page order, from the last page backwards.
RECURSIVE JoinPages(_)
JoinPages(pages) ==
    IF pages = <<>> THEN EmptyText
    ELSE Concat(Head(pages).text, JoinPages(Tail(pages)))

Readable(pdf_file) ==
    /\ pdf_file # None
    /\ pdf_file[1].opens
    /\ \A k \in DOMAIN pdf_file[1].pages : ~pdf_file[1].pages[k].raises

ExtractionErrors == { m \in Range(ui) : m.body[1] = "Error extracting text with PyMuPDF: " }

\* C7: extract_text_from_pdf returns the pages' texts joined in page order when
\* the stream opens and every page is read; when opening or any page fails,
\* also after earlier pages were read, it returns the empty string, an error
\* message is shown, and the exception does not escape (the run goes on to its
\* extraction check).
C7_ExtractionJoinsPagesOrReturnsEmpty ==
    /\ \A k \in DOMAIN extracted :
          IF Readable(extracted[k].pdf_file)
          THEN extracted[k].text = JoinPages(extracted[k].pdf_file[1].pages)
          ELSE /\ extracted[k].text = EmptyText
               /\ \E m \in ExtractionErrors : m.fn = "error"
    /\ extracted # <<>> =>
          /\ Traceback \notin Range(ui)
          /\ (ErrorExtract \in Range(ui)) # (SuccessExtracted \in Range(ui))
          /\ (ExtractionErrors = {}) =
                (\A k \in DOMAIN extracted : Readable(extracted[k].pdf_file))

\* Document 1 has two pages of text, returned joined in order; document 2 has
\* a page of text and then a page that fails, and gave the empty string.
C7_Witness ==
    /\ Len(extracted) = 2
    /\ extracted[1].pdf_file[1].pages
          = << [raises |-> FALSE, text |-> <<Run("a", 1)>>, exc |-> "-"],
               [raises |-> FALSE, text |-> <<Run("b", 60000)>>, exc |-> "-"] >>
    /\ extracted[1].text = <<Run("a", 1), Run("b", 60000)>>
    /\ Len(extracted[2].pdf_file[1].pages) = 2
    /\ extracted[2].pdf_file[1].pages[1].text # EmptyText
    /\ extracted[2].pdf_file[1].pages[2].raises
    /\ extracted[2].text = EmptyText
    /\ ExtractionErrors # {}

\* C9: validation and every requester invocation act on the credential
\* configured at that moment, never on one read earlier: validation reports
\* the missing credential exactly when none is configured then; a requester
\* invoked with none configured returns the missing-credential error and sends
\* nothing, and one invoked with a credential sends its request under that
\* credential.
C9_CredentialReadAtEveryUse ==
    [][ /\ (Click /\ ~DocumentMissing /\ ~NoModelSelected) =>
              (NoCredential <=> ui' = <<ErrorKey>>)
        /\ (Click /\ ~DocumentMissing /\ ~NoModelSelected /\ ~NoCredential) =>
              Len(extracted') = 2
        /\ (Invoke /\ NoCredential) =>
              /\ Len(returned') = Len(returned) + 1
              /\ Last(returned') = MissingKeyError
              /\ network' = network
        /\ (Invoke /\ ~NoCredential) =>
              /\ Len(network') = Len(network) + 1
              /\ Last(network').api_key = secrets[1]
              /\ returned' = returned ]_vars

\* In one run the first model was called under a credential that had replaced
\* the one read at validation, and the credential was removed before the
\* second model, which returned the missing-credential error.
C9_Witness ==
    /\ pc = "loop"
    /\ i = 2
    /\ openai_key_configured = Some("sk-A")
    /\ Len(network) = 1
    /\ network[1].api_key = "sk-B"
    /\ secrets = None

\* What a finished run shows last.
TerminalOutcome ==
    /\ ui # <<>>
    /\ Last(ui) \in {WarnDocuments, WarnModels, ErrorKey, ErrorExtract, SuccessComplete}

\* C10: provided every outbound call returns or raises, a triggered run reaches
\* a terminal outcome (precondition warning, extraction error or completion
\* message) and no exception escapes; a run sends at most one request per
\* selected model; and once the run is over another run can be triggered.
C10_EveryRunEndsAndPageStaysUsable ==
    /\ [](Traceback \notin Range(ui))
    /\ []((pc = "idle" /\ ui # <<>>) => TerminalOutcome)
    /\ [](/\ Len(network) <= Len(selected_llm_display_names)
          /\ \A j, k \in DOMAIN network : j # k => network[j].model # network[k].model)
    /\ []((pc = "idle") => ENABLED Click)
    /\ (pc # "idle") ~> (pc = "idle" /\ TerminalOutcome)
    /\ [][Click => (pc' # "idle" \/ TerminalOutcome')]_vars

\* A run of two models is over, with one request sent per model, and the
\* button can be clicked again.
C10_Witness ==
    /\ pc = "idle"
    /\ RunComplete
    /\ Len(network) = 2
    /\ ENABLED Click

\* C8 as stated: every missing precondition has its message surfaced in the run.
C8_EveryMissingPreconditionSurfaced ==
    [][ Click =>
          /\ DocumentMissing => WarnDocuments \in Range(ui')
          /\ NoModelSelected => WarnModels \in Range(ui')
          /\ NoCredential => ErrorKey \in Range(ui') ]_vars

\* C8 amended: the three messages are pairwise distinct, and a run surfaces the
\* message of the first missing precondition only, in the order documents,
\* model selection, credential.
C8_FirstMissingPreconditionSurfaced ==
    [][ Click =>
          /\ Cardinality({WarnDocuments, WarnModels, ErrorKey}) = 3
          /\ DocumentMissing => ui' = <<WarnDocuments>>
          /\ (~DocumentMissing /\ NoModelSelected) => ui' = <<WarnModels>>
          /\ (~DocumentMissing /\ ~NoModelSelected /\ NoCredential)
                => ui' = <<ErrorKey>> ]_vars

\* A run with both documents, no model selected and no credential has shown
\* the model-selection warning alone.
C8_Witness ==
    /\ ~DocumentMissing
    /\ NoModelSelected
    /\ NoCredential
    /\ pc = "idle"
    /\ ui = <<WarnModels>>

====
